---- MODULE Spec2Model ----
(***************************************************************************)
(* Model of freecad/gears/involutegearrack.py: the InvoluteGearRack        *)
(* feature object and its generate_gear_shape builder.                     *)
(*                                                                         *)
(* Numbers are fixed point: a length x mm, a dimensionless factor x and an *)
(* angle of x rad are the integer x * Scale.  Angles held by the host      *)
(* object (PropertyAngle.Value) are whole degrees.  A 2-D point is the     *)
(* pair <<height coordinate, pitch coordinate>>, the order in which the    *)
(* builder emits np.array([y, x]).                                         *)
(***************************************************************************)
EXTENDS Integers, Sequences, FiniteSets, TLC

\* Resolution of the fixed-point numbers (units per 1.0).
Scale == 10000

\* np.pi, in fixed point.
PiNum == 31416

\* obj.num_teeth = (15, 3, 10000, 1): the constraint's minimum.
MinTeeth == 3

\* obj.num_teeth = (15, 3, 10000, 1): the default.
DefaultTeeth == 15

\* obj.num_teeth = (15, 3, 10000, 1): the constraint's maximum.
TeethLimit == 10000

\* head_fillet / root_fillet = (0.0, 0.0, 1000.0, 0.01): the constraint's maximum.
FilletLimit == 1000

\* Largest tooth count explored here (the constraint's maximum is 10000).
MaxTeeth == 4

\* Largest module explored, in mm.
MaxModule == 2

\* obj:            the feature object's property values
\* PropertiesList: the names of the properties the object has
\* rack:           obj.rack, the InvoluteRack kept from build to build
\* result:         what the last generate_gear_shape returned or raised
\* before:         obj.rack and obj.transverse_pitch as the last build found them
VARIABLES obj, PropertiesList, rack, result, before

vars == <<obj, PropertiesList, rack, result, before>>

----------------------------------------------------------------------------
(* Arithmetic *)

Abs(a) == IF a < 0 THEN -a ELSE a

Max(a, b) == IF a >= b THEN a ELSE b

\* Fixed-point product a * b.
Mul(a, b) == (a \div Scale) * b + ((a % Scale) * b) \div Scale

\* Fixed-point quotient a / b.
Div(a, b) == (a * Scale) \div b

\* obj.<angle>.Value * np.pi / 180.0
ToRad(deg) == (deg * PiNum) \div 180

\* np.tan, on the angles the model uses (0, 20, 45 and 60 degrees in radians).
Tan(a) ==
  CASE a = 0 -> 0
    [] a = ToRad(20) -> 3640
    [] a = ToRad(45) -> Scale
    [] a = ToRad(60) -> 17321

\* cos, on the helix angles the model uses.
Cos(a) ==
  CASE a = 0 -> Scale
    [] a = ToRad(60) -> 5000

----------------------------------------------------------------------------
(* The geometry kernel: points, edges, wires *)

Add(p, v) == <<p[1] + v[1], p[2] + v[2]>>

\* part.LineSegment(p, q).toShape(): a straight edge.
Line(p, q) == [type |-> "line", first |-> p, last |-> q, radius |-> 0]

\* The placeholder insert_fillet leaves where it made no fillet.
None == [type |-> "none", first |-> <<0, 0>>, last |-> <<0, 0>>, radius |-> 0]

\* points_to_wire(lines).Edges: one straight edge per two-point line.
PointsToWire(lines) == [i \in 1..Len(lines) |-> Line(lines[i][1], lines[i][2])]

\* edge.translate(app.Vector(0, dx, 0)) / wire.translate(...), in the plane.
TranslateEdge(e, v) == [e EXCEPT !.first = Add(e.first, v), !.last = Add(e.last, v)]

TranslateWire(w, v) == [i \in 1..Len(w) |-> TranslateEdge(w[i], v)]

RECURSIVE Flatten(_)
\* part.Wire(list of wires): the wires' edges, in order.
Flatten(ws) == IF ws = <<>> THEN <<>> ELSE Head(ws) \o Flatten(Tail(ws))

----------------------------------------------------------------------------
(* basegear.insert_fillet *)

\* Length of a straight edge, measured along its dominant axis.
EdgeLen(e) == Max(Abs(e.last[1] - e.first[1]), Abs(e.last[2] - e.first[2]))

\* The point at distance d from p on the way to q.
PointToward(p, q, d) ==
  LET len == Max(Abs(q[1] - p[1]), Abs(q[2] - p[2]))
  IN  <<p[1] + ((q[1] - p[1]) * d) \div len, p[2] + ((q[2] - p[2]) * d) \div len>>

\* Whether a fillet of this radius fits between edges[pos] and edges[pos + 1]
\* (0-based, as in the source): it must leave a piece of both edges.
FilletPossible(edges, pos, radius) ==
  radius < EdgeLen(edges[pos + 1]) /\ radius < EdgeLen(edges[pos + 2])

\* insert_fillet(edges, pos, radius): the list grows by one slot at pos + 1,
\* holding the fillet edge (both neighbours trimmed back to its ends) when
\* radius > 0 and the None placeholder otherwise.
InsertFillet(edges, pos, radius) ==
  LET e1 == edges[pos + 1]
      e2 == edges[pos + 2]
      t1 == PointToward(e1.last, e1.first, radius)
      t2 == PointToward(e2.first, e2.last, radius)
      fillet == [type |-> "fillet", first |-> t1, last |-> t2, radius |-> radius]
      mid == IF radius > 0
             THEN <<[e1 EXCEPT !.last = t1], fillet, [e2 EXCEPT !.first = t2]>>
             ELSE <<e1, None, e2>>
  IN  SubSeq(edges, 1, pos) \o mid \o SubSeq(edges, pos + 3, Len(edges))

----------------------------------------------------------------------------
(* pygears.involute_tooth.InvoluteRack *)

\* InvoluteRack(): the rack object as constructed, before any build.
InvoluteRack ==
  [m |-> 5 * Scale, z |-> 15, pressure_angle |-> ToRad(20), thickness |-> 5 * Scale,
   beta |-> 0, head |-> 0, clearance |-> Scale \div 4,
   properties_from_tool |-> FALSE, add_endings |-> FALSE, simplified |-> FALSE]

\* rack._update(): re-initialises the rack from its own fields.
Update(r) == r

\* rack.compute_properties(): the module the teeth are built with (the
\* transverse module m / cos(beta) under properties_from_tool, else m), the
\* normal module and the pitch.
ComputeProperties(r) ==
  LET m == IF r.properties_from_tool THEN Div(r.m, Cos(r.beta)) ELSE r.m
  IN  [m |-> m, m_n |-> r.m, pitch |-> Mul(m, PiNum)]

----------------------------------------------------------------------------
(* InvoluteGearRack.generate_gear_shape, step by step *)

\* WriteRack that copies properties_from_tool only when it is set
\* (if obj.properties_from_tool: obj.rack.properties_from_tool = True): once
\* a build has set it in obj.rack, no later build clears it.
WriteRackLatchesTool(o, props, r) ==
  [m |-> o.module,
   z |-> o.num_teeth,
   pressure_angle |-> ToRad(o.pressure_angle),
   thickness |-> o.thickness,
   beta |-> ToRad(o.helix_angle),
   head |-> o.head,
   clearance |-> IF "clearance" \in props THEN o.clearance ELSE r.clearance,
   properties_from_tool |-> IF "properties_from_tool" \in props /\ o.properties_from_tool
                            THEN TRUE ELSE r.properties_from_tool,
   add_endings |-> IF "add_endings" \in props THEN o.add_endings ELSE r.add_endings,
   simplified |-> IF "simplified" \in props THEN o.simplified ELSE r.simplified]

\* Lines 200-214: the parameters copied into the long-lived obj.rack; the
\* four legacy fields only when the object has the property.
WriteRack(o, props, r) ==
  [m |-> o.module,
   z |-> o.num_teeth,
   pressure_angle |-> ToRad(o.pressure_angle),
   thickness |-> o.thickness,
   beta |-> ToRad(o.helix_angle),
   head |-> o.head,
   clearance |-> IF "clearance" \in props THEN o.clearance ELSE r.clearance,
   properties_from_tool |-> IF "properties_from_tool" \in props
                            THEN o.properties_from_tool ELSE r.properties_from_tool,
   add_endings |-> IF "add_endings" \in props THEN o.add_endings ELSE r.add_endings,
   simplified |-> IF "simplified" \in props THEN o.simplified ELSE r.simplified]

\* Lines 224-241: the six raw tooth vertices p1..p6, each <<y, x>>.
ToothPoints(m, c, h, alpha) ==
  LET x1 == -(Mul(m, PiNum) \div 2)
      y1 == -Mul(m, Scale + c)
      y2 == y1
      x2 == -(Mul(m, PiNum) \div 4) + Mul(y2, Tan(alpha))
      y3 == Mul(m, Scale + h)
      x3 == -(Mul(m, PiNum) \div 4) + Mul(y3, Tan(alpha))
      x4 == -x3
      x5 == -x2
      x6 == -x1
      y4 == y3
      y5 == y2
      y6 == y1
  IN  <<<<y1, x1>>, <<y2, x2>>, <<y3, x3>>, <<y4, x4>>, <<y5, x5>>, <<y6, x6>>>>

\* Lines 242-249: line1..line5 made into the tooth wire; its edges.
ToothLines(p) ==
  PointsToWire(<<<<p[1], p[2]>>, <<p[2], p[3]>>, <<p[3], p[4]>>,
                 <<p[4], p[5]>>, <<p[5], p[6]>>>>)

\* One insert_fillet call on the outcome of the calls before it: it raises
\* when a fillet is asked for (radius > 0) and does not fit.
FilletStep(f, pos, radius) ==
  IF ~f.ok THEN f
  ELSE IF radius > 0 /\ ~FilletPossible(f.edges, pos, radius)
       THEN [ok |-> FALSE, edges |-> f.edges]
       ELSE [ok |-> TRUE, edges |-> InsertFillet(f.edges, pos, radius)]

\* FilletedEdges with the root and head radii interchanged.
FilletedEdgesSwapped(edges, m, root_fillet, head_fillet) ==
  LET f0 == [ok |-> TRUE, edges |-> edges]
      f1 == FilletStep(f0, 0, Mul(m, head_fillet))
      f2 == FilletStep(f1, 2, Mul(m, root_fillet))
      f3 == FilletStep(f2, 4, Mul(m, root_fillet))
  IN  FilletStep(f3, 6, Mul(m, head_fillet))

\* Lines 250-253: the four insert_fillet calls.
FilletedEdges(edges, m, root_fillet, head_fillet) ==
  LET f0 == [ok |-> TRUE, edges |-> edges]
      f1 == FilletStep(f0, 0, Mul(m, root_fillet))
      f2 == FilletStep(f1, 2, Mul(m, head_fillet))
      f3 == FilletStep(f2, 4, Mul(m, head_fillet))
  IN  FilletStep(f3, 6, Mul(m, root_fillet))

\* Line 255: the placeholders dropped.
RemoveNone(edges) == SelectSeq(edges, LAMBDA e : e # None)

\* Lines 256-260: the chain without its first and last edge, plus the bridge
\* from its end to its start one pitch further.
ToothUnit(tooth_edges, m) ==
  LET n == Len(tooth_edges)
      p_end == tooth_edges[n - 1].last
      p_start == Add(tooth_edges[2].first, <<0, Mul(PiNum, m)>>)
  IN  SubSeq(tooth_edges, 2, n - 1) \o PointsToWire(<<<<p_end, p_start>>>>)

RECURSIVE CopiesOfFirst(_, _, _)
\* Copies with every copy taken from the first tooth (tooth = teeth[0].copy())
\* and moved by one pitch only.
CopiesOfFirst(tooth, count, m) ==
  IF count = 0 THEN <<>>
  ELSE <<TranslateWire(tooth, <<0, Mul(PiNum, m)>>)>> \o CopiesOfFirst(tooth, count - 1, m)

RECURSIVE Copies(_, _, _)
\* Lines 263-266: each further tooth is a copy of the one before it, moved on
\* by one pitch.
Copies(tooth, count, m) ==
  IF count = 0 THEN <<>>
  ELSE LET next == TranslateWire(tooth, <<0, Mul(PiNum, m)>>)
       IN  <<next>> \o Copies(next, count - 1, m)

\* Lines 261-268: the tooth and its num_teeth - 1 copies; the last one loses
\* its bridge.
TileTeeth(tooth, num_teeth, m) ==
  LET teeth == <<tooth>> \o Copies(tooth, num_teeth - 1, m)
      n == Len(teeth)
  IN  [teeth EXCEPT ![n] = SubSeq(teeth[n], 1, Len(teeth[n]) - 1)]

\* AddEndings with the trailing cap moved by num_teeth pitches, one too many.
AddEndingsOnePitchOn(teeth, tooth_edges, add_endings, num_teeth, m) ==
  IF add_endings
  THEN LET last_edge == TranslateEdge(tooth_edges[Len(tooth_edges)],
                                      <<0, Mul(PiNum, m) * num_teeth>>)
       IN  <<<<tooth_edges[1]>>>> \o teeth \o <<<<last_edge>>>>
  ELSE teeth

\* Lines 270-274: the end caps, the chain's first edge in front and its last
\* edge, moved to the last tooth, behind.
AddEndings(teeth, tooth_edges, add_endings, num_teeth, m) ==
  IF add_endings
  THEN LET last_edge == TranslateEdge(tooth_edges[Len(tooth_edges)],
                                      <<0, Mul(PiNum, m) * (num_teeth - 1)>>)
       IN  <<<<tooth_edges[1]>>>> \o teeth \o <<<<last_edge>>>>
  ELSE teeth

\* BaseStrip with the second lower corner taken from the start point.
BaseStripFromStart(teeth, thickness) ==
  LET lastw == teeth[Len(teeth)]
      p_start == teeth[1][1].first
      p_end == lastw[Len(lastw)].last
      p_start_1 == Add(p_start, <<-thickness, 0>>)
      p_end_1 == Add(p_start, <<-thickness, 0>>)
  IN  PointsToWire(<<<<p_start, p_start_1>>, <<p_start_1, p_end_1>>, <<p_end_1, p_end>>>>)

\* Lines 276-285: the base strip, from the teeth chain's start point down by
\* the thickness, across, and up to the chain's end point.
BaseStrip(teeth, thickness) ==
  LET lastw == teeth[Len(teeth)]
      p_start == teeth[1][1].first
      p_end == lastw[Len(lastw)].last
      p_start_1 == Add(p_start, <<-thickness, 0>>)
      p_end_1 == Add(p_end, <<-thickness, 0>>)
  IN  PointsToWire(<<<<p_start, p_start_1>>, <<p_start_1, p_end_1>>, <<p_end_1, p_end>>>>)

\* Line 287: pol = part.Wire([bottom] + teeth).
Outline(bottom, teeth) == bottom \o Flatten(teeth)

\* MakeSolid with the double_helix test ahead of the beta == 0 test.
MakeSolidDoubleFirst(height, beta, double_helix) ==
  IF height = 0
  THEN [kind |-> "outline", profiles |-> <<<<0, 0, 0>>>>,
        vector |-> <<0, 0, 0>>, solid |-> FALSE, ruled |-> FALSE]
  ELSE IF double_helix
  THEN [kind |-> "loft",
        profiles |-> <<<<0, 0, 0>>,
                       <<0, Mul(Tan(beta), height) \div 2, height \div 2>>,
                       <<0, 0, height>>>>,
        vector |-> <<0, 0, 0>>, solid |-> TRUE, ruled |-> TRUE]
  ELSE IF beta = 0
  THEN [kind |-> "extrude", profiles |-> <<<<0, 0, 0>>>>,
        vector |-> <<0, 0, height>>, solid |-> TRUE, ruled |-> FALSE]
  ELSE [kind |-> "loft",
        profiles |-> <<<<0, 0, 0>>, <<0, Mul(Tan(beta), height), height>>>>,
        vector |-> <<0, 0, 0>>, solid |-> TRUE, ruled |-> FALSE]

\* MakeSolid with the middle profile of the double helix moved by the whole
\* tan(beta) * height, not by half of it.
MakeSolidWholeOffset(height, beta, double_helix) ==
  IF height = 0
  THEN [kind |-> "outline", profiles |-> <<<<0, 0, 0>>>>,
        vector |-> <<0, 0, 0>>, solid |-> FALSE, ruled |-> FALSE]
  ELSE IF beta = 0
  THEN [kind |-> "extrude", profiles |-> <<<<0, 0, 0>>>>,
        vector |-> <<0, 0, height>>, solid |-> TRUE, ruled |-> FALSE]
  ELSE IF double_helix
  THEN [kind |-> "loft",
        profiles |-> <<<<0, 0, 0>>,
                       <<0, Mul(Tan(beta), height), height \div 2>>,
                       <<0, 0, height>>>>,
        vector |-> <<0, 0, 0>>, solid |-> TRUE, ruled |-> TRUE]
  ELSE [kind |-> "loft",
        profiles |-> <<<<0, 0, 0>>, <<0, Mul(Tan(beta), height), height>>>>,
        vector |-> <<0, 0, 0>>, solid |-> TRUE, ruled |-> FALSE]

\* Lines 289-307: what is returned, as the kind of shape and the translation
\* <<height axis, pitch axis, third axis>> of each profile it is made from.
MakeSolid(height, beta, double_helix) ==
  IF height = 0
  THEN [kind |-> "outline", profiles |-> <<<<0, 0, 0>>>>,
        vector |-> <<0, 0, 0>>, solid |-> FALSE, ruled |-> FALSE]
  ELSE IF beta = 0
  THEN [kind |-> "extrude", profiles |-> <<<<0, 0, 0>>>>,
        vector |-> <<0, 0, height>>, solid |-> TRUE, ruled |-> FALSE]
  ELSE IF double_helix
  THEN [kind |-> "loft",
        profiles |-> <<<<0, 0, 0>>,
                       <<0, Mul(Tan(beta), height) \div 2, height \div 2>>,
                       <<0, 0, height>>>>,
        vector |-> <<0, 0, 0>>, solid |-> TRUE, ruled |-> TRUE]
  ELSE [kind |-> "loft",
        profiles |-> <<<<0, 0, 0>>, <<0, Mul(Tan(beta), height), height>>>>,
        vector |-> <<0, 0, 0>>, solid |-> TRUE, ruled |-> FALSE]

\* Nothing returned: before the first build, and after a build that raised.
NoShape ==
  [kind |-> "none", profiles |-> <<>>, vector |-> <<0, 0, 0>>,
   solid |-> FALSE, ruled |-> FALSE]

\* The state before any build.
NoResult ==
  [status |-> "none", error |-> "", steps |-> <<>>, m |-> 0,
   tooth_edges |-> <<>>, teeth |-> <<>>, pol |-> <<>>, shape |-> NoShape]

\* A build that raised after the steps named: it returns nothing, and what it
\* wrote to obj.rack and obj.transverse_pitch before raising stays written.
Raise(rk, pitch, error, steps) ==
  [rack |-> rk, transverse_pitch |-> pitch,
   result |-> [NoResult EXCEPT !.status = "error", !.error = error, !.steps = steps]]

\* Lines 199-307: generate_gear_shape(obj) on an object with the property
\* list props whose obj.rack holds r: what it leaves in obj.rack and
\* obj.transverse_pitch, and what it returns or raises.  result records the
\* builder's locals m, tooth_edges, teeth and pol beside the returned shape.
GenerateOutcome(o, props, r) ==
  LET rk == WriteRack(o, props, r)
      cp == ComputeProperties(Update(rk))
      m == cp.m
  IN  IF "clearance" \notin props
      THEN Raise(rk, cp.pitch, "AttributeError", <<"rack">>)
      ELSE
      LET lines == ToothLines(ToothPoints(m, o.clearance, o.head, ToRad(o.pressure_angle)))
          fil == FilletedEdges(lines, m, o.root_fillet, o.head_fillet)
      IN  IF ~fil.ok
          THEN Raise(rk, cp.pitch, "GeometricConstraintError", <<"rack", "tooth", "fillet">>)
          ELSE
          LET tooth_edges == RemoveNone(fil.edges)
              tiled == TileTeeth(ToothUnit(tooth_edges, m), o.num_teeth, m)
          IN  IF "add_endings" \notin props
              THEN Raise(rk, cp.pitch, "AttributeError",
                         <<"rack", "tooth", "fillet", "tiling">>)
              ELSE
              LET teeth == AddEndings(tiled, tooth_edges, o.add_endings, o.num_teeth, m)
                  pol == Outline(BaseStrip(teeth, o.thickness), teeth)
              IN  [rack |-> rk, transverse_pitch |-> cp.pitch,
                   result |->
                     [status |-> "ok", error |-> "",
                      steps |-> <<"rack", "tooth", "fillet", "tiling", "outline", "solid">>,
                      m |-> m, tooth_edges |-> tooth_edges, teeth |-> teeth, pol |-> pol,
                      shape |-> MakeSolid(o.height, rk.beta, o.double_helix)]]

----------------------------------------------------------------------------
(* The feature object *)

\* The properties __init__ adds to the object (lines 36-80 and 112-197).
AllProperties ==
  {"num_teeth", "height", "module", "thickness", "simplified", "rack",
   "properties_from_tool", "helix_angle", "double_helix", "transverse_pitch",
   "add_endings", "head", "clearance", "pressure_angle", "head_fillet", "root_fillet"}

\* The properties generate_gear_shape looks up in obj.PropertiesList before
\* copying them (lines 206-214): an object restored from an older document
\* may lack them.
LegacyOptional == {"clearance", "properties_from_tool", "add_endings", "simplified"}

\* The property lists explored: the full one, and each with one optional
\* property missing.
PropertyLists == {AllProperties} \cup {AllProperties \ {p} : p \in LegacyOptional}

\* Values the model gives each property.
ModuleValues == {k * Scale : k \in 0..MaxModule}

FilletValues == {0, Scale \div 10}

RootFilletValues == FilletValues \cup {FilletLimit * Scale}

PressureAngles == {20, 45}

HelixValues == {0, 60}

\* Lines 82-92: the property values __init__ leaves.
Constructed ==
  [num_teeth |-> DefaultTeeth, module |-> Scale, pressure_angle |-> 20,
   height |-> 5 * Scale, thickness |-> 5 * Scale, helix_angle |-> 0,
   clearance |-> Scale \div 4, head |-> 0, properties_from_tool |-> FALSE,
   add_endings |-> TRUE, simplified |-> FALSE, double_helix |-> FALSE,
   head_fillet |-> 0, root_fillet |-> 0, transverse_pitch |-> 0]

\* An object with any of the explored parameter values, not yet built.
Init ==
  /\ obj \in [num_teeth : MinTeeth..MaxTeeth, module : ModuleValues,
              pressure_angle : PressureAngles, height : {0, 10 * Scale},
              thickness : {0, 5 * Scale}, helix_angle : HelixValues,
              clearance : {Scale \div 4}, head : {0},
              properties_from_tool : BOOLEAN, add_endings : BOOLEAN,
              simplified : {FALSE}, double_helix : BOOLEAN,
              head_fillet : FilletValues, root_fillet : RootFilletValues,
              transverse_pitch : {0}]
  /\ PropertiesList \in PropertyLists
  /\ rack = InvoluteRack
  /\ result = NoResult
  /\ before = [rack |-> InvoluteRack, transverse_pitch |-> 0]

\* A freshly constructed object, or one restored without some optional
\* property, not yet built.
InitRebuild ==
  /\ obj = Constructed
  /\ PropertiesList \in PropertyLists
  /\ rack = InvoluteRack
  /\ result = NoResult
  /\ before = [rack |-> InvoluteRack, transverse_pitch |-> 0]

\* The host recomputes the object: generate_gear_shape(obj).
GenerateGearShape ==
  LET out == GenerateOutcome(obj, PropertiesList, rack)
  IN  /\ rack' = out.rack
      /\ obj' = [obj EXCEPT !.transverse_pitch = out.transverse_pitch]
      /\ result' = out.result
      /\ before' = [rack |-> rack, transverse_pitch |-> obj.transverse_pitch]
      /\ UNCHANGED PropertiesList

\* The user edits a property of the object between two recomputes.
SetModule ==
  /\ \E v \in ModuleValues : obj' = [obj EXCEPT !.module = v]
  /\ UNCHANGED <<PropertiesList, rack, result, before>>

SetRootFillet ==
  /\ \E v \in RootFilletValues : obj' = [obj EXCEPT !.root_fillet = v]
  /\ UNCHANGED <<PropertiesList, rack, result, before>>

SetHelixAngle ==
  /\ \E v \in HelixValues : obj' = [obj EXCEPT !.helix_angle = v]
  /\ UNCHANGED <<PropertiesList, rack, result, before>>

SetPropertiesFromTool ==
  /\ "properties_from_tool" \in PropertiesList
  /\ \E v \in BOOLEAN : obj' = [obj EXCEPT !.properties_from_tool = v]
  /\ UNCHANGED <<PropertiesList, rack, result, before>>

Next == GenerateGearShape

NextRebuild ==
  \/ GenerateGearShape
  \/ SetModule
  \/ SetRootFillet
  \/ SetHelixAngle
  \/ SetPropertiesFromTool

\* Builds of objects with every explored parameter combination.
Spec == Init /\ [][Next]_vars

\* Edits and rebuilds of one long-lived object.
SpecRebuild == InitRebuild /\ [][NextRebuild]_vars

----------------------------------------------------------------------------
(* What the claims speak of *)

\* The last build returned a shape.
Built == result.status = "ok"

\* The parameter ranges the specification calls valid.
ValidParameters(o) ==
  /\ o.num_teeth \in MinTeeth..TeethLimit
  /\ o.module > 0
  /\ o.thickness > 0
  /\ o.head_fillet \in 0..(FilletLimit * Scale)
  /\ o.root_fillet \in 0..(FilletLimit * Scale)

SetMax(S) == CHOOSE x \in S : \A y \in S : y <= x

SetMin(S) == CHOOSE x \in S : \A y \in S : x <= y

\* The end points of a list of edges.
Vertices(edges) ==
  {edges[i].first : i \in DOMAIN edges} \cup {edges[i].last : i \in DOMAIN edges}

\* Largest minus smallest pitch coordinate over the vertices.
PitchExtent(edges) ==
  LET xs == {v[2] : v \in Vertices(edges)} IN SetMax(xs) - SetMin(xs)

\* The raw tooth's flank feet and tips lie between its two outer root points.
FlanksInsideCaps ==
  LET p == ToothPoints(result.m, obj.clearance, obj.head, ToRad(obj.pressure_angle))
  IN  p[1][2] <= p[2][2] /\ p[1][2] <= p[3][2]

\* The k-th tooth unit of the last build (k = 1 is the first tooth): with end
\* caps, the list starts with the leading cap.
ToothAt(k) == result.teeth[IF obj.add_endings THEN k + 1 ELSE k]

\* The vertices of a wire in order: its first point, then each edge's end.
VertexSeq(w) == <<w[1].first>> \o [i \in 1..Len(w) |-> w[i].last]

ShiftSeq(ps, v) == [i \in 1..Len(ps) |-> Add(ps[i], v)]

\* Type and radius of each edge.
Kinds(edges) == [i \in 1..Len(edges) |-> <<edges[i].type, edges[i].radius>>]

\* The tooth chain the claim describes for the two fillet radii: root, flank,
\* tip, flank, root, with a fillet at each corner whose radius is > 0.
FilletChain(r_root, r_head) ==
  LET f(r) == IF r > 0 THEN <<<<"fillet", r>>>> ELSE <<>>
      l == <<<<"line", 0>>>>
  IN  l \o f(r_root) \o l \o f(r_head) \o l \o f(r_head) \o l \o f(r_root) \o l

\* Each edge of the list ends where the next one starts.
Chained(edges) == \A i \in 1..(Len(edges) - 1) : edges[i].last = edges[i + 1].first

----------------------------------------------------------------------------
(* C1 *)

----------------------------------------------------------------------------
(* C2 *)

\* C2 as stated: for valid parameters every tooth, the last included, has the
\* vertices of the tooth before it moved by (0, module * pi).
C2_EveryToothIsTheOneBeforeShifted ==
  (Built /\ ValidParameters(obj))
    => \A i \in 1..(obj.num_teeth - 1) :
         VertexSeq(ToothAt(i + 1))
           = ShiftSeq(VertexSeq(ToothAt(i)), <<0, Mul(obj.module, PiNum)>>)

\* C2, amended: every tooth has the vertices of the tooth before it moved by
\* (0, pi * m), m being the module the builder works with; except that the
\* last tooth, whose bridge edge is dropped, lacks the final vertex (the
\* bridge's end).
C2_TilingIsTranslation ==
  Built
    => \A i \in 1..(obj.num_teeth - 1) :
         LET moved == ShiftSeq(VertexSeq(ToothAt(i)), <<0, Mul(PiNum, result.m)>>)
         IN  VertexSeq(ToothAt(i + 1))
               = IF i + 1 < obj.num_teeth THEN moved
                 ELSE SubSeq(moved, 1, Len(moved) - 1)

C2_Witness ==
  /\ Built /\ obj.module > 0 /\ obj.num_teeth > MinTeeth
  /\ obj.add_endings /\ obj.root_fillet > 0
  /\ Len(ToothAt(obj.num_teeth)) + 1 = Len(ToothAt(1))

----------------------------------------------------------------------------
(* C3 *)

\* C3: what is returned follows from height, helix_angle and double_helix
\* alone, by exactly one of four cases: the outline; an extrusion by height;
\* a loft over two profiles, the second moved by (0, tan(helix) * height,
\* height); a loft over three profiles.
C3_SolidCases ==
  Built =>
    LET h == obj.height
        a == obj.helix_angle
        d == obj.double_helix
        sh == result.shape
        cases == <<h = 0, h > 0 /\ a = 0, h > 0 /\ a # 0 /\ ~d, h > 0 /\ a # 0 /\ d>>
    IN  /\ Cardinality({i \in 1..4 : cases[i]}) = 1
        /\ cases[1] => sh.kind = "outline" /\ ~sh.solid
        /\ cases[2] => sh.kind = "extrude" /\ sh.vector = <<0, 0, h>>
        /\ cases[3] => /\ sh.kind = "loft"
                       /\ Len(sh.profiles) = 2
                       /\ sh.profiles[2] = <<0, Mul(Tan(ToRad(a)), h), h>>
        /\ cases[4] => sh.kind = "loft" /\ Len(sh.profiles) = 3

C3_Witness ==
  /\ Built /\ obj.height > 0 /\ obj.helix_angle # 0 /\ ~obj.double_helix
  /\ result.shape.kind = "loft"

----------------------------------------------------------------------------
(* C4 *)

\* C4: the double-helix loft has its three profiles at heights 0, height/2
\* and height, the middle one moved by tan(helix) * height/2 along the pitch
\* axis, and is symmetric about half-height: the pitch offset gained from the
\* base to the middle profile is given back from the middle to the top.
C4_DoubleHelixSymmetric ==
  (Built /\ obj.height > 0 /\ obj.helix_angle # 0 /\ obj.double_helix) =>
    LET pr == result.shape.profiles
        h == obj.height
    IN  /\ Len(pr) = 3
        /\ pr[1][3] = 0 /\ pr[2][3] = h \div 2 /\ pr[3][3] = h
        /\ pr[2][2] = Mul(Tan(ToRad(obj.helix_angle)), h) \div 2
        /\ pr[2][2] - pr[1][2] = pr[2][2] - pr[3][2]
        /\ Abs(pr[2][2] - pr[1][2]) = Abs(pr[3][2] - pr[2][2])

C4_Witness ==
  /\ Built /\ obj.height > 0 /\ obj.helix_angle # 0 /\ obj.double_helix
  /\ result.shape.profiles[2][2] # 0

----------------------------------------------------------------------------
(* C5 *)

\* C5: a build with invalid parameters ends in InvalidParameterError, raised
\* before any step of the build; it returns no outline and no solid.  (Stated
\* for objects that have all their properties.)
C5_InvalidParametersRejected ==
  (result.status # "none" /\ ~ValidParameters(obj) /\ PropertiesList = AllProperties)
    => /\ result.status = "error"
       /\ result.error = "InvalidParameterError"
       /\ result.steps = <<>>
       /\ result.shape = NoShape

----------------------------------------------------------------------------
(* C6 *)

\* C6: after a build that failed, obj.rack and obj.transverse_pitch hold what
\* they held when that build started, and nothing was returned.  (Stated for
\* objects that have all their properties, and for a build that follows an
\* earlier one, which left its pitch in transverse_pitch.)
C6_FailedBuildLeavesState ==
  (result.status = "error" /\ PropertiesList = AllProperties /\ before.transverse_pitch > 0)
    => /\ rack = before.rack
       /\ obj.transverse_pitch = before.transverse_pitch
       /\ result.shape = NoShape

----------------------------------------------------------------------------
(* C7 *)

\* The step is a build: the parameters are those the build was given.
BuildStep == obj' = [obj EXCEPT !.transverse_pitch = obj'.transverse_pitch]

\* C7: whatever the earlier edits and builds of the object, a build returns
\* (or raises) and writes to transverse_pitch what a build of the same
\* parameters on a newly made rack object does.
C7_RebuildIsPure ==
  [][BuildStep =>
       LET fresh == GenerateOutcome(obj, PropertiesList, InvoluteRack)
       IN  /\ result' = fresh.result
           /\ obj'.transverse_pitch = fresh.transverse_pitch]_vars

\* A build that found in obj.rack what an earlier build, with another module
\* or helix angle, had written there.
C7_Witness ==
  /\ Built
  /\ before.rack # InvoluteRack
  /\ before.rack.m # rack.m
  /\ before.rack.beta # rack.beta

----------------------------------------------------------------------------
(* C8 *)

\* The outline's teeth chain and base strip, as the builder lists them.
TeethChain == Flatten(result.teeth)

Bottom == SubSeq(result.pol, 1, 3)

\* The part of C8 that does not depend on the edges' directions: the teeth
\* chain runs from the base strip's start point to its end point, and the
\* strip's two lower corners lie thickness below those points.
C8_StripUnderChain ==
  /\ Chained(TeethChain)
  /\ Bottom[1].first = TeethChain[1].first
  /\ Bottom[3].last = TeethChain[Len(TeethChain)].last
  /\ Bottom[1].last = Add(Bottom[1].first, <<-obj.thickness, 0>>)
  /\ Bottom[3].first = Add(Bottom[3].last, <<-obj.thickness, 0>>)
  /\ Bottom[2].first = Bottom[1].last /\ Bottom[2].last = Bottom[3].first
  /\ result.pol = Bottom \o TeethChain

\* C8 as stated: each edge's end vertex is the start vertex of exactly one
\* other edge of the outline.
C8_EveryEndIsOneStart ==
  (Built /\ ValidParameters(obj))
    => /\ C8_StripUnderChain
       /\ \A i \in DOMAIN result.pol :
            Cardinality({j \in DOMAIN result.pol \ {i} :
                           result.pol[j].first = result.pol[i].last}) = 1

\* C8, amended: the outline is one closed chain in that every vertex is an
\* end point of exactly two edges; the teeth chain and the base strip both
\* run from the start point to the end point (so the strip's last edge ends,
\* not starts, where the teeth chain ends).
C8_OutlineClosed ==
  (Built /\ ValidParameters(obj))
    => /\ C8_StripUnderChain
       /\ \A v \in Vertices(result.pol) :
            Cardinality({i \in DOMAIN result.pol :
                           result.pol[i].first = v \/ result.pol[i].last = v}) = 2

C8_Witness ==
  /\ Built /\ ValidParameters(obj)
  /\ obj.add_endings /\ obj.root_fillet > 0 /\ obj.head_fillet = 0
  /\ obj.num_teeth > MinTeeth

----------------------------------------------------------------------------
(* C9 *)

----------------------------------------------------------------------------
(* C10 *)

\* The object with the defaults of lines 88-92 in place of the optional
\* properties it lacks.
WithDefaults(o, props) ==
  [o EXCEPT
     !.clearance = IF "clearance" \in props THEN @ ELSE Constructed.clearance,
     !.properties_from_tool =
        IF "properties_from_tool" \in props THEN @ ELSE Constructed.properties_from_tool,
     !.add_endings = IF "add_endings" \in props THEN @ ELSE Constructed.add_endings,
     !.simplified = IF "simplified" \in props THEN @ ELSE Constructed.simplified]

\* C10: a build, with valid parameters, of an object that lacks an optional
\* property does what the build of the same object with that property at its
\* default does.
C10_AbsentFieldsTolerated ==
  (result.status # "none" /\ PropertiesList # AllProperties /\ ValidParameters(obj))
    => result = GenerateOutcome(WithDefaults(obj, PropertiesList),
                                AllProperties, InvoluteRack).result

====
